---------------------------- MODULE Spec2Model ----------------------------
(***************************************************************************)
(* A model of gfibot/data/dataset.py: the snapshot builder (get_dataset),  *)
(* the incremental update orchestrator (get_dataset_with_issues,           *)
(* get_dataset_for_repo, get_dataset_all) and the DatasetBuildLog record   *)
(* used as an advisory lock.                                               *)
(*                                                                         *)
(* The document store is modelled by one sequence per collection, in the   *)
(* store's natural (insertion) order.  The raw collections (RepoIssue,     *)
(* RepoCommit, ResolvedIssue, OpenIssue, Repo) are inputs: no function of  *)
(* dataset.py writes them.  Dataset and DatasetBuildLog are written.       *)
(***************************************************************************)
EXTENDS Integers, Sequences, FiniteSets, TLC

VARIABLES
    RepoIssue,        \* collection: issues and pull requests
    RepoCommit,       \* collection: commits
    ResolvedIssue,    \* collection: resolved issues (with embedded events)
    OpenIssue,        \* collection: open issues (with embedded events)
    Repo,             \* collection: repositories (with monthly series)
    Dataset,          \* collection: the persisted Snapshots
    DatasetBuildLog,  \* collection: the build logs (lock records)
    pc,               \* pc[p]: the position of process p in its code
    loc,              \* loc[p]: the local variables of process p
    hist,             \* the last operation and the get_dataset calls it made
    nops              \* number of operations made so far

raw == <<RepoIssue, RepoCommit, ResolvedIssue, OpenIssue, Repo>>
vars == <<RepoIssue, RepoCommit, ResolvedIssue, OpenIssue, Repo,
          Dataset, DatasetBuildLog, pc, loc, hist, nops>>

---------------------------------------------------------------------------
(* Bounds of the model *)

\* the raw store holds at most MaxIssues issues at the start
MaxIssues == 2
\* at most MaxOps operations (update runs, direct get_dataset calls, issue
\* resolutions) are made in one behaviour
MaxOps == 3
\* the raw store of the concurrent processes holds at most MaxProcIssues
\* issues, and the processes invoke at most MaxRuns update runs in all
MaxProcIssues == 1
MaxRuns == 2

\* longest event list replayed by SpecReplay
MaxEvents == 3

(* Program constants *)

\* resolver_commit_num of a Snapshot built from an OpenIssue
OPEN_RESOLVER_COMMIT_NUM == -1

\* Python's None for a nullable timestamp or number
None == 0 - 1


\* Python's None for an event without actor
NoActor == "None"

\* the name of the deleted GitHub account, and of the web commit account
Ghost == "ghost"
WebFlow == "web-flow"

---------------------------------------------------------------------------
(* Helpers over sequences (lists, query results) *)

\* [f(x) for x in s]
Map(s, f(_)) == [i \in DOMAIN s |-> f(s[i])]

\* the set of elements of a list
Range(s) == {s[i] : i \in DOMAIN s}

RECURSIVE SumSeq(_)
SumSeq(s) == IF s = <<>> THEN 0 ELSE Head(s) + SumSeq(Tail(s))

\* list.remove(x): removes the first occurrence of x, which must be present
RECURSIVE RemoveFirst(_, _)
RemoveFirst(s, x) ==
    IF s = <<>> THEN <<>>
    ELSE IF Head(s) = x THEN Tail(s)
    ELSE <<Head(s)>> \o RemoveFirst(Tail(s), x)

\* x in list
InList(x, s) == \E i \in DOMAIN s : s[i] = x

\* the number of elements of s that are <= x
Rank(s, x) == Cardinality({i \in DOMAIN s : s[i] <= x})

\* twice np.median(s) of a non-empty list (twice, to stay in the integers):
\* the sum of the two middle elements of the sorted list (the middle one
\* counted twice when the length is odd)
Median2(s) ==
    LET n  == Len(s)
        \* the k-th smallest element, 1 <= k <= n
        Kth(k) == CHOOSE v \in Range(s) :
                     /\ Cardinality({i \in DOMAIN s : s[i] < v}) < k
                     /\ Rank(s, v) >= k
    IN  Kth((n + 1) \div 2) + Kth((n + 2) \div 2)


---------------------------------------------------------------------------
(* The raw store, as the read-only queries of dataset.py see it *)

\* the raw collections of the current state, as one record
DB == [RepoIssue |-> RepoIssue, RepoCommit |-> RepoCommit,
       ResolvedIssue |-> ResolvedIssue, OpenIssue |-> OpenIssue,
       Repo |-> Repo]

\* isinstance(issue, ResolvedIssue)
IsResolvedIssue(issue) == issue.cls = "ResolvedIssue"

\* Q(owner=issue.owner, name=issue.name, number=issue.number) on a document
SameIssue(d, issue) ==
    d.owner = issue.owner /\ d.name = issue.name /\ d.number = issue.number

\* queryset.first() of a non-empty query result
First(s) == s[1]

---------------------------------------------------------------------------
(* _get_user_data: a user's history in one repository up to time t *)

\* a commit query that does not look at the commit time
UserCommitsAuthoredOnly(db, owner, name, user, t) ==
    SelectSeq(db.RepoCommit, LAMBDA c :
        /\ c.owner = owner /\ c.name = name
        /\ c.authored_at <= t
        /\ (c.committer = user \/ (c.author = user /\ c.committer = WebFlow)))

UserCommits(db, owner, name, user, t) ==
    SelectSeq(db.RepoCommit, LAMBDA c :
        /\ c.owner = owner /\ c.name = name
        /\ c.authored_at <= t /\ c.committed_at <= t
        /\ (c.committer = user \/ (c.author = user /\ c.committer = WebFlow)))

UserIssues(db, owner, name, user, t, pull) ==
    SelectSeq(db.RepoIssue, LAMBDA i :
        /\ i.owner = owner /\ i.name = name /\ i.user = user
        /\ i.created_at <= t /\ i.is_pull = pull)

_get_user_data(db, owner, name, user, t) ==
    IF user = Ghost
    THEN [name |-> user, n_commits |-> 0, n_issues |-> 0, n_pulls |-> 0,
          resolver_commits |-> <<>>]
    ELSE
      LET usrcmts  == UserCommits(db, owner, name, user, t)
          usriss   == UserIssues(db, owner, name, user, t, FALSE)
          usrpulls == UserIssues(db, owner, name, user, t, TRUE)
          closed   == {i.number : i \in
                         {x \in Range(usriss) :
                             x.state = "closed" /\ x.closed_at <= t}}
          usriss_resolved ==
              SelectSeq(db.ResolvedIssue, LAMBDA r :
                  r.owner = owner /\ r.name = name /\ r.number \in closed)
      IN  [name |-> user,
           n_commits |-> Len(usrcmts),
           n_issues |-> Len(usriss),
           n_pulls |-> Len(usrpulls),
           resolver_commits |->
               Map(usriss_resolved, LAMBDA r : r.resolver_commit_num)]

---------------------------------------------------------------------------
(* _get_background_data: repository-wide statistics up to time t *)

_get_background_data(db, owner, name, t) ==
    LET all_issues ==
            SelectSeq(db.RepoIssue, LAMBDA i :
                /\ i.owner = owner /\ i.name = name
                /\ i.is_pull = FALSE /\ i.created_at <= t)
        all_commits ==
            SelectSeq(db.RepoCommit, LAMBDA c :
                /\ c.owner = owner /\ c.name = name
                /\ c.authored_at <= t /\ c.committed_at <= t)
        IsClosed(i) == i.state = "closed" /\ i.closed_at <= t
        closed_issues == SelectSeq(all_issues, IsClosed)
    IN  [contributors |->
             {c.author : c \in Range(all_commits)}
                 \cup {c.committer : c \in Range(all_commits)},
         n_closed_issues |-> Len(closed_issues),
         n_open_issues |-> Len(all_issues) - Len(closed_issues),
         issue_close_times |->
             Map(closed_issues, LAMBDA i : i.closed_at - i.created_at)]

---------------------------------------------------------------------------
(* _get_dynamics_data: the replay of an issue's events up to time t *)

\* the accumulator before the first event
DynamicsInit ==
    [labels |-> <<>>, comments |-> <<>>,
     comment_users |-> {}, event_users |-> {}]

\* an iteration in which an unlabeled event drops the latest label whether
\* or not it is the event's label
DynamicsStepUnlabelLatest(acc, event, t) ==
    IF ~(event.time <= t) THEN acc
    ELSE IF event.type = "unlabeled"
    THEN [acc EXCEPT !.labels =
             IF @ = <<>> THEN @ ELSE SubSeq(@, 1, Len(@) - 1)]
    ELSE IF event.type = "labeled"
    THEN [acc EXCEPT !.labels = Append(@, event.label)]
    ELSE IF event.type = "commented"
    THEN [acc EXCEPT !.comments = Append(@, event.comment)]
    ELSE acc

\* one iteration of the loop over the events (the body of the for)
DynamicsStep(acc, event, t) ==
    IF ~(event.time <= t) THEN acc
    ELSE
      LET real == event.actor # NoActor /\ event.actor # Ghost
          a1 == IF real
                THEN [acc EXCEPT !.event_users = @ \cup {event.actor}]
                ELSE acc
      IN  IF event.type = "labeled"
          THEN [a1 EXCEPT !.labels = Append(@, event.label)]
          ELSE IF event.type = "unlabeled"
          THEN IF InList(event.label, a1.labels)
               THEN [a1 EXCEPT !.labels = RemoveFirst(@, event.label)]
               ELSE a1
          ELSE IF event.type = "commented"
          THEN [a1 EXCEPT !.comments = Append(@, event.comment),
                          !.comment_users =
                              IF real THEN @ \cup {event.actor} ELSE @]
          ELSE a1

RECURSIVE DynamicsFold(_, _, _)
DynamicsFold(acc, events, t) ==
    IF events = <<>> THEN acc
    ELSE DynamicsFold(DynamicsStep(acc, Head(events), t), Tail(events), t)

\* the two user lists are built by iterating Python sets: their order is
\* not determined, so they are kept as sets of UserFeature records
_get_dynamics_data(db, owner, name, events, t) ==
    LET acc == DynamicsFold(DynamicsInit, events, t)
    IN  [labels |-> acc.labels,
         comments |-> acc.comments,
         comment_users |->
             {_get_user_data(db, owner, name, u, t) : u \in acc.comment_users},
         event_users |->
             {_get_user_data(db, owner, name, u, t) : u \in acc.event_users}]

---------------------------------------------------------------------------
(* get_dataset, lines 270-333: the Snapshot built for (issue, before).     *)
(* The content features (title, body, lengths, readability scores, label   *)
(* categories) are functions of the undated title and body text alone and  *)
(* are left out; every dated input of the Snapshot is kept.                *)

\* sum(x.count for x in series if x.month <= before)
MonthlySum(series, before) ==
    SumSeq(Map(SelectSeq(series, LAMBDA x : x.month <= before),
               LAMBDA x : x.count))

\* a resolver_commit_num that is the sentinel of an open issue whatever the
\* issue passed in
ResolverCommitNumOpen(issue) == OPEN_RESOLVER_COMMIT_NUM

\* data.resolver_commit_num
ResolverCommitNum(issue) ==
    IF IsResolvedIssue(issue) THEN issue.resolver_commit_num
    ELSE OPEN_RESOLVER_COMMIT_NUM

\* data.closed_at
SnapshotClosedAt(repo_issue, before) == repo_issue.closed_at

\* an event type list that takes the events up to and at the cutoff
SnapshotEventsInclusive(issue, before) ==
    Map(SelectSeq(issue.events, LAMBDA e : e.time <= before),
        LAMBDA e : e.type)

\* data.events
SnapshotEvents(issue, before) ==
    Map(SelectSeq(issue.events, LAMBDA e : e.time < before),
        LAMBDA e : e.type)

BuildSnapshot(db, issue, before) ==
    LET repo_issue == First(SelectSeq(db.RepoIssue,
                                      LAMBDA i : SameIssue(i, issue)))
        repo == First(SelectSeq(db.Repo, LAMBDA r :
                    r.owner = issue.owner /\ r.name = issue.name))
        bg == _get_background_data(db, issue.owner, issue.name, before)
        prev_resolver_commits ==
            Map(SelectSeq(db.ResolvedIssue, LAMBDA x :
                    /\ x.name = issue.name /\ x.owner = issue.owner
                    /\ x.resolved_at <= before),
                LAMBDA x : x.resolver_commit_num)
        dyn == _get_dynamics_data(db, issue.owner, issue.name,
                                  issue.events, before)
        n_open == bg.n_open_issues
        n_closed == bg.n_closed_issues
    IN  [owner |-> issue.owner,
         name |-> issue.name,
         number |-> issue.number,
         created_at |-> repo_issue.created_at,
         closed_at |-> SnapshotClosedAt(repo_issue, before),
         before |-> before,
         resolver_commit_num |-> ResolverCommitNum(issue),
         labels |-> dyn.labels,
         reporter_feat |-> _get_user_data(db, issue.owner, issue.name,
                                          repo_issue.user, before),
         owner_feat |-> _get_user_data(db, issue.owner, issue.name,
                                       issue.owner, before),
         prev_resolver_commits |-> prev_resolver_commits,
         n_stars |-> MonthlySum(repo.monthly_stars, before),
         n_pulls |-> MonthlySum(repo.monthly_pulls, before),
         n_commits |-> MonthlySum(repo.monthly_commits, before),
         n_contributors |-> Cardinality(bg.contributors),
         n_closed_issues |-> n_closed,
         n_open_issues |-> n_open,
         \* the ratio n_open / (n_open + n_closed) as <<numerator,
         \* denominator>>, and 0 as <<0, 1>>
         r_open_issues |-> IF n_open + n_closed > 0
                           THEN <<n_open, n_open + n_closed>>
                           ELSE <<0, 1>>,
         \* twice the median, to stay in the integers
         issue_close_time |-> IF Len(bg.issue_close_times) > 0
                              THEN Median2(bg.issue_close_times)
                              ELSE 0,
         comments |-> dyn.comments,
         events |-> SnapshotEvents(issue, before),
         comment_users |-> dyn.comment_users,
         event_users |-> dyn.event_users]

---------------------------------------------------------------------------
(* The raw stores the model starts from *)

Event(type, time, actor, label, comment) ==
    [type |-> type, time |-> time, actor |-> actor, label |-> label,
     comment |-> comment]

IssueDoc(owner, name, number, user, created_at, closed_at, is_pull) ==
    [owner |-> owner, name |-> name, number |-> number, user |-> user,
     created_at |-> created_at, closed_at |-> closed_at,
     state |-> IF closed_at = None THEN "open" ELSE "closed",
     is_pull |-> is_pull]

ResolvedDoc(owner, name, number, created_at, resolved_at, rcn, events) ==
    [cls |-> "ResolvedIssue", owner |-> owner, name |-> name,
     number |-> number, created_at |-> created_at,
     resolved_at |-> resolved_at, resolver_commit_num |-> rcn,
     events |-> events]

OpenDoc(owner, name, number, created_at, updated_at, events) ==
    [cls |-> "OpenIssue", owner |-> owner, name |-> name,
     number |-> number, created_at |-> created_at,
     updated_at |-> updated_at, events |-> events]

CommitDoc(owner, name, author, committer, authored_at, committed_at) ==
    [owner |-> owner, name |-> name, author |-> author,
     committer |-> committer, authored_at |-> authored_at,
     committed_at |-> committed_at]

Month(month, count) == [month |-> month, count |-> count]

\* The issues a raw store is drawn from: each entry is the canonical
\* RepoIssue document of an issue and its ResolvedIssue or OpenIssue
\* document.  A resolved issue is closed at its resolution time, an open
\* issue has no closing time; events are in time order.
IssuePool ==
    << \* o/r#1: resolved, labeled "bug" between creation and resolution
       [repo_issue |-> IssueDoc("o", "r", 1, "alice", 0, 2, FALSE),
        doc |-> ResolvedDoc("o", "r", 1, 0, 2, 2,
                   <<Event("labeled", 1, "bob", "bug", "")>>)],
       \* o/r#2: open, labeled twice with the same label, then unlabeled
       [repo_issue |-> IssueDoc("o", "r", 2, "bob", 0, None, FALSE),
        doc |-> OpenDoc("o", "r", 2, 0, 2,
                   <<Event("labeled", 0, "alice", "x", ""),
                     Event("labeled", 1, Ghost, "x", ""),
                     Event("unlabeled", 2, NoActor, "x", "")>>)],
       \* o/r#3: resolved, but the canonical record is a pull request
       [repo_issue |-> IssueDoc("o", "r", 3, "bob", 0, 1, TRUE),
        doc |-> ResolvedDoc("o", "r", 3, 0, 1, 0, <<>>)],
       \* p/q#1: open, without events, in another repository
       [repo_issue |-> IssueDoc("p", "q", 1, "alice", 1, None, FALSE),
        doc |-> OpenDoc("p", "q", 1, 1, 1, <<>>)],
       \* o/r#4: open, commented, unlabeled without having been labeled
       [repo_issue |-> IssueDoc("o", "r", 4, "alice", 0, None, FALSE),
        doc |-> OpenDoc("o", "r", 4, 0, 1,
                   <<Event("commented", 0, "alice", "", "c"),
                     Event("unlabeled", 1, "bob", "y", "")>>)] >>

\* the commits of every raw store
CommitPool ==
    << CommitDoc("o", "r", "o", "o", 0, 0),
       CommitDoc("o", "r", "bob", WebFlow, 1, 1),
       CommitDoc("o", "r", "alice", "bob", 1, 2),
       CommitDoc("p", "q", "bob", "bob", 2, 2) >>

\* the repositories of every raw store
RepoPool ==
    << [owner |-> "o", name |-> "r",
        monthly_stars |-> <<Month(0, 1), Month(1, 2), Month(2, 4)>>,
        monthly_pulls |-> <<Month(1, 1)>>,
        monthly_commits |-> <<Month(0, 1), Month(1, 1), Month(2, 1)>>],
       [owner |-> "p", name |-> "q",
        monthly_stars |-> <<Month(2, 3)>>,
        monthly_pulls |-> <<>>,
        monthly_commits |-> <<Month(2, 1)>>] >>

\* the timestamps of the raw data
Times ==
    UNION {{e.doc.created_at,
            IF e.doc.cls = "ResolvedIssue" THEN e.doc.resolved_at
            ELSE e.doc.updated_at}
           \cup {ev.time : ev \in Range(e.doc.events)} :
           e \in Range(IssuePool)}

\* the latest timestamp of the raw data
LastTime == CHOOSE t \in Times : \A u \in Times : u <= t

\* datetime.utcnow() when a build log is closed: later than every timestamp
\* of the raw data
UtcNow == LastTime + 1

\* the repositories, as (owner, name) keys, and the global run's empty pair
RepoKeys == {<<"o", "r">>, <<"p", "q">>}
GlobalKey == <<"", "">>

\* the pool entries chosen by the set S of pool positions, in pool order
Chosen(S) == SelectSeq(IssuePool, LAMBDA e :
                \E i \in S : IssuePool[i] = e)

InitStore(S) ==
    /\ RepoIssue = Map(Chosen(S), LAMBDA e : e.repo_issue)
    /\ ResolvedIssue =
           Map(SelectSeq(Chosen(S), LAMBDA e : IsResolvedIssue(e.doc)),
               LAMBDA e : e.doc)
    /\ OpenIssue =
           Map(SelectSeq(Chosen(S), LAMBDA e : ~IsResolvedIssue(e.doc)),
               LAMBDA e : e.doc)
    /\ RepoCommit = CommitPool
    /\ Repo = RepoPool

---------------------------------------------------------------------------
(* log_exists(owner, name, DatasetBuildLog), from gfibot.collections: an   *)
(* active build log (end time unset) exists for the key                    *)

log_exists(owner, name, logs) ==
    \E k \in DOMAIN logs :
        /\ logs[k].owner = owner /\ logs[k].name = name
        /\ logs[k].update_end = None

---------------------------------------------------------------------------
(* get_dataset(issue, before) *)

NoSnapshot == [valid |-> FALSE]

\* the value returned by get_dataset: a Snapshot, or nothing
Returned(data) == [valid |-> TRUE, data |-> data]

\* the Snapshots of the issue
IssueSnapshots(ds, issue) == SelectSeq(ds, LAMBDA d : SameIssue(d, issue))

\* a deletion of every Snapshot of a ResolvedIssue, stale or not
DeleteStaleAndResolved(ds, issue) ==
    IF IsResolvedIssue(issue)
    THEN SelectSeq(ds, LAMBDA d : ~SameIssue(d, issue))
    ELSE ds

\* lines 255-256: Dataset.objects(query & Q(resolver_commit_num=-1)).delete()
\* for a ResolvedIssue
DeleteStale(ds, issue) ==
    IF IsResolvedIssue(issue)
    THEN SelectSeq(ds, LAMBDA d :
             ~(SameIssue(d, issue)
               /\ d.resolver_commit_num = OPEN_RESOLVER_COMMIT_NUM))
    ELSE ds

\* an existence check that finds nothing
ExistingNever(ds, issue, before) == <<>>

\* line 258: Dataset.objects(query & Q(before=before))
Existing(ds, issue, before) ==
    SelectSeq(ds, LAMBDA d : SameIssue(d, issue) /\ d.before = before)

\* line 265: RepoIssue.objects(query).first()
CanonicalIssue(db, issue) ==
    First(SelectSeq(db.RepoIssue, LAMBDA i : SameIssue(i, issue)))

\* lines 266-268: the canonical record is a pull request
IsPull(db, issue) == CanonicalIssue(db, issue).is_pull = TRUE

\* the result of a get_dataset call: the Dataset collection it leaves, the
\* value it returns, and whether it deleted or saved a Snapshot
CallResult(issue, before, ds, ret, deleted, saved) ==
    [issue |-> issue, before |-> before, Dataset |-> ds, ret |-> ret,
     deleted |-> deleted, saved |-> saved]

\* a get_dataset that looks for the Snapshot of its key first and deletes
\* the stale Snapshots afterwards
get_dataset_check_first(db, ds, issue, before) ==
    LET d1 == DeleteStale(ds, issue)
        existing == Existing(ds, issue, before)
    IN  IF Len(existing) > 0
        THEN CallResult(issue, before, d1, Returned(First(existing)),
                        d1 # ds, FALSE)
        ELSE IF IsPull(db, issue)
        THEN CallResult(issue, before, d1, NoSnapshot, d1 # ds, FALSE)
        ELSE LET data == BuildSnapshot(db, issue, before)
             IN  CallResult(issue, before, Append(d1, data), Returned(data),
                            d1 # ds, TRUE)

\* get_dataset(issue, before), run without interruption on the Dataset
\* collection ds
get_dataset(db, ds, issue, before) ==
    LET d1 == DeleteStale(ds, issue)
        existing == Existing(d1, issue, before)
    IN  IF Len(existing) > 0
        THEN CallResult(issue, before, d1, Returned(First(existing)),
                        d1 # ds, FALSE)
        ELSE IF IsPull(db, issue)
        THEN CallResult(issue, before, d1, NoSnapshot, d1 # ds, FALSE)
        ELSE LET data == BuildSnapshot(db, issue, before)
             IN  CallResult(issue, before, Append(d1, data), Returned(data),
                            d1 # ds, TRUE)

---------------------------------------------------------------------------
(* get_dataset_with_issues(resolved_issues, open_issues) *)

\* max(e.time for e in i.events), or i.created_at without events
LastUpdated(i) ==
    IF Len(i.events) > 0
    THEN CHOOSE t \in {e.time : e \in Range(i.events)} :
             \A e \in Range(i.events) : e.time <= t
    ELSE i.created_at

\* line 354: the issue's first Snapshot is at or after its last activity
UpToDate(ds, i) ==
    LET existing == IssueSnapshots(ds, i)
    IN  Len(existing) > 0 /\ First(existing).before >= LastUpdated(i)

\* the loops with a single call per resolved issue, at its resolved_at
WorkItemsResolvedAtOnly(resolved_issues, open_issues) ==
    Map(resolved_issues,
        LAMBDA i : [op |-> "gd", issue |-> i, before |-> i.resolved_at])
    \o Map(open_issues,
           LAMBDA i : [op |-> "open", issue |-> i, before |-> i.updated_at])

\* the iterations of the two loops: two get_dataset calls for each resolved
\* issue (at created_at, then at resolved_at), then one iteration for each
\* open issue
WorkItems(resolved_issues, open_issues) ==
    [k \in 1..(2 * Len(resolved_issues)) |->
        LET i == resolved_issues[(k + 1) \div 2]
        IN  [op |-> "gd", issue |-> i,
             before |-> IF k % 2 = 1 THEN i.created_at ELSE i.resolved_at]]
    \o Map(open_issues, LAMBDA i :
            [op |-> "open", issue |-> i, before |-> i.updated_at])

\* one iteration, run without interruption: acc holds the Dataset
\* collection and the results of the get_dataset calls made so far
RunItem(db, acc, item) ==
    IF item.op = "open" /\ UpToDate(acc.Dataset, item.issue)
    THEN acc
    ELSE LET r == get_dataset(db, acc.Dataset, item.issue, item.before)
         IN  [Dataset |-> r.Dataset, calls |-> Append(acc.calls, r)]

\* a loop that ends at the first get_dataset call returning nothing
RECURSIVE RunItemsUntilNone(_, _, _)
RunItemsUntilNone(db, acc, work) ==
    IF work = <<>> THEN acc
    ELSE LET next == RunItem(db, acc, Head(work))
         IN  IF /\ Len(next.calls) > Len(acc.calls)
                /\ ~next.calls[Len(next.calls)].ret.valid
             THEN next
             ELSE RunItemsUntilNone(db, next, Tail(work))

RECURSIVE RunItems(_, _, _)
RunItems(db, acc, work) ==
    IF work = <<>> THEN acc
    ELSE RunItems(db, RunItem(db, acc, Head(work)), Tail(work))

\* get_dataset_with_issues, run without interruption on the Dataset
\* collection ds
get_dataset_with_issues(db, ds, resolved_issues, open_issues) ==
    RunItems(db, [Dataset |-> ds, calls |-> <<>>],
             WorkItems(resolved_issues, open_issues))

---------------------------------------------------------------------------
(* The issues an update run selects, and its build log *)

\* get_dataset_for_repo: repo_query & Q(resolved_at__gte=since)
RepoResolvedIssues(owner, name, since) ==
    SelectSeq(ResolvedIssue, LAMBDA i :
        i.owner = owner /\ i.name = name /\ i.resolved_at >= since)

\* get_dataset_for_repo: repo_query & Q(updated_at__gte=since)
RepoOpenIssues(owner, name, since) ==
    SelectSeq(OpenIssue, LAMBDA i :
        i.owner = owner /\ i.name = name /\ i.updated_at >= since)

\* get_dataset_all: Q() when since is None, else Q(resolved_at__gte=since)
AllResolvedIssues(since) ==
    IF since = None THEN ResolvedIssue
    ELSE SelectSeq(ResolvedIssue, LAMBDA i : i.resolved_at >= since)

\* get_dataset_all: Q() when since is None, else Q(updated_at__gte=since)
AllOpenIssues(since) ==
    IF since = None THEN OpenIssue
    ELSE SelectSeq(OpenIssue, LAMBDA i : i.updated_at >= since)

\* a run: its entry point ("repo" for get_dataset_for_repo, "all" for
\* get_dataset_all) and its arguments
Run(kind, owner, name, since) ==
    [kind |-> kind, owner |-> owner, name |-> name, since |-> since]

\* the resolved issues of a run
RunResolved(run) ==
    IF run.kind = "repo"
    THEN RepoResolvedIssues(run.owner, run.name, run.since)
    ELSE AllResolvedIssues(run.since)

\* the open issues of a run
RunOpen(run) ==
    IF run.kind = "repo"
    THEN RepoOpenIssues(run.owner, run.name, run.since)
    ELSE AllOpenIssues(run.since)

\* lines 371-378 and 402-405: the build log a run inserts
NewLog(p, run) ==
    [owner |-> run.owner, name |-> run.name, pid |-> p,
     update_end |-> None, updated_open_issues |-> None,
     updated_resolved_issues |-> None]

\* a build log closed with the number of Snapshots in the Dataset
\* collection in place of the numbers of selected issues
ClosedLogCountingSnapshots(log, run) ==
    [log EXCEPT !.updated_open_issues =
                    Cardinality({k \in DOMAIN Dataset :
                        Dataset[k].resolver_commit_num
                            = OPEN_RESOLVER_COMMIT_NUM}),
                !.updated_resolved_issues =
                    Cardinality({k \in DOMAIN Dataset :
                        Dataset[k].resolver_commit_num
                            # OPEN_RESOLVER_COMMIT_NUM}),
                !.update_end = UtcNow]

\* lines 385-388 and 416-419: the build log as the run closes it
ClosedLog(log, run) ==
    [log EXCEPT !.updated_open_issues = Len(RunOpen(run)),
                !.updated_resolved_issues = Len(RunResolved(run)),
                !.update_end = UtcNow]

---------------------------------------------------------------------------
(* Operations made one after another: each is one step *)

NoOp == [kind |-> "none", calls |-> <<>>]

\* the operations of one behaviour are counted
Count == nops < MaxOps /\ nops' = nops + 1

\* the processes stay where they are
Idle == \A p \in DOMAIN pc : pc[p] = "idle"

\* a direct call get_dataset(issue, before)
SeqGetDataset(issue, before) ==
    /\ Idle /\ Count
    /\ LET r == get_dataset(DB, Dataset, issue, before)
       IN  /\ Dataset' = r.Dataset
           /\ hist' = [kind |-> "call", calls |-> <<r>>]
    /\ UNCHANGED <<raw, DatasetBuildLog, pc, loc>>

\* an update run, from its lock check to the closing of its build log
SeqRun(run) ==
    /\ Idle /\ Count
    /\ IF log_exists(run.owner, run.name, DatasetBuildLog)
       THEN /\ hist' = [kind |-> "skipped", run |-> run, calls |-> <<>>]
            /\ UNCHANGED <<Dataset, DatasetBuildLog>>
       ELSE LET r == get_dataset_with_issues(DB, Dataset, RunResolved(run),
                                             RunOpen(run))
            IN  /\ Dataset' = r.Dataset
                /\ DatasetBuildLog' =
                       Append(DatasetBuildLog,
                              ClosedLog(NewLog(1, run), run))
                /\ hist' = [kind |-> "run", run |-> run, calls |-> r.calls]
    /\ UNCHANGED <<raw, pc, loc>>

---------------------------------------------------------------------------
(* The environment: the ingestion pipeline, which is not part of           *)
(* dataset.py, resolves an open issue between two operations.  The issue's *)
(* OpenIssue document is removed, its ResolvedIssue document is added and  *)
(* its RepoIssue document is closed, at the latest timestamp.              *)

\* the resolver_commit_num of an issue resolved by the environment
ResolvedCommitNum == 1

IssueResolved(k) ==
    /\ Idle /\ Count
    /\ k \in DOMAIN OpenIssue
    /\ LET i == OpenIssue[k]
       IN  /\ OpenIssue' = SelectSeq(OpenIssue, LAMBDA x : x # i)
           /\ ResolvedIssue' =
                  Append(ResolvedIssue,
                         ResolvedDoc(i.owner, i.name, i.number, i.created_at,
                                     LastTime, ResolvedCommitNum, i.events))
           /\ RepoIssue' =
                  Map(RepoIssue, LAMBDA x :
                      IF SameIssue(x, i)
                      THEN [x EXCEPT !.closed_at = LastTime,
                                     !.state = "closed"]
                      ELSE x)
    /\ hist' = [kind |-> "resolved", calls |-> <<>>]
    /\ UNCHANGED <<RepoCommit, Repo, Dataset, DatasetBuildLog, pc, loc>>

---------------------------------------------------------------------------
(* Concurrent processes, each making update runs: one step of a process    *)
(* is one operation on the store                                           *)

Procs == {1, 2}

IdleLoc == [kind |-> "none"]

\* where a process stands at item idx of its work list: in a get_dataset
\* call (at the stale-snapshot deletion for a ResolvedIssue, at the
\* existence check for an OpenIssue), at the up-to-date check of an open
\* issue, or past the last item
PcAt(work, idx) ==
    IF idx > Len(work) THEN "close_log"
    ELSE IF work[idx].op = "open" THEN "open_check"
    ELSE IF IsResolvedIssue(work[idx].issue) THEN "gd_delete"
    ELSE "gd_check"

\* process p moves to item idx of its work list
Goto(p, l, idx) ==
    /\ pc' = [pc EXCEPT ![p] = PcAt(l.work, idx)]
    /\ loc' = [loc EXCEPT ![p] = [l EXCEPT !.idx = idx]]

\* the get_dataset call process p is in: its arguments
CurIssue(p) == loc[p].work[loc[p].idx].issue
CurBefore(p) == loc[p].work[loc[p].idx].before

\* a run that goes on without looking for an active build log
StartRunUnchecked(p, run) ==
    /\ pc[p] = "idle"
    /\ nops < MaxRuns
    /\ nops' = nops + 1
    /\ pc' = [pc EXCEPT ![p] = "save_log"]
    /\ loc' = [loc EXCEPT ![p] =
                  [run |-> run, log |-> 0, work |-> <<>>, idx |-> 0]]
    /\ UNCHANGED <<raw, Dataset, DatasetBuildLog, hist>>

\* lines 367-369 and 398-400: the run returns when its key has an active
\* build log, and goes on to insert its own otherwise
StartRun(p, run) ==
    /\ pc[p] = "idle"
    /\ nops < MaxRuns
    /\ nops' = nops + 1
    /\ IF log_exists(run.owner, run.name, DatasetBuildLog)
       THEN UNCHANGED <<pc, loc>>
       ELSE /\ pc' = [pc EXCEPT ![p] = "save_log"]
            /\ loc' = [loc EXCEPT ![p] =
                          [run |-> run, log |-> 0, work |-> <<>>, idx |-> 0]]
    /\ UNCHANGED <<raw, Dataset, DatasetBuildLog, hist>>

\* lines 371-383 and 402-414: the run's build log is inserted, and its
\* issues are selected
SaveLog(p) ==
    /\ pc[p] = "save_log"
    /\ DatasetBuildLog' = Append(DatasetBuildLog, NewLog(p, loc[p].run))
    /\ Goto(p, [loc[p] EXCEPT
                   !.log = Len(DatasetBuildLog) + 1,
                   !.work = WorkItems(RunResolved(loc[p].run),
                                      RunOpen(loc[p].run))],
            1)
    /\ UNCHANGED <<raw, Dataset, hist, nops>>

\* lines 255-256: a ResolvedIssue's stale Snapshots are deleted
GdDelete(p) ==
    /\ pc[p] = "gd_delete"
    /\ Dataset' = DeleteStale(Dataset, CurIssue(p))
    /\ pc' = [pc EXCEPT ![p] = "gd_check"]
    /\ UNCHANGED <<raw, DatasetBuildLog, loc, hist, nops>>

\* lines 258-268: the existence check and the pull request check
GdCheck(p) ==
    /\ pc[p] = "gd_check"
    /\ IF \/ Len(Existing(Dataset, CurIssue(p), CurBefore(p))) > 0
          \/ IsPull(DB, CurIssue(p))
       THEN Goto(p, loc[p], loc[p].idx + 1)
       ELSE /\ pc' = [pc EXCEPT ![p] = "gd_save"]
            /\ UNCHANGED loc
    /\ UNCHANGED <<raw, Dataset, DatasetBuildLog, hist, nops>>

\* lines 270-337: the Snapshot is built, saved and returned
GdSave(p) ==
    /\ pc[p] = "gd_save"
    /\ Dataset' = Append(Dataset,
                         BuildSnapshot(DB, CurIssue(p), CurBefore(p)))
    /\ Goto(p, loc[p], loc[p].idx + 1)
    /\ UNCHANGED <<raw, DatasetBuildLog, hist, nops>>

\* lines 347-358: an up-to-date open issue is skipped, another one is
\* passed to get_dataset with its updated_at
OpenCheck(p) ==
    /\ pc[p] = "open_check"
    /\ IF UpToDate(Dataset, CurIssue(p))
       THEN Goto(p, loc[p], loc[p].idx + 1)
       ELSE /\ pc' = [pc EXCEPT ![p] = "gd_check"]
            /\ UNCHANGED loc
    /\ UNCHANGED <<raw, Dataset, DatasetBuildLog, hist, nops>>

\* lines 385-388 and 416-419: the run closes its build log
CloseLog(p) ==
    /\ pc[p] = "close_log"
    /\ DatasetBuildLog' =
           [DatasetBuildLog EXCEPT ![loc[p].log] = ClosedLog(@, loc[p].run)]
    /\ pc' = [pc EXCEPT ![p] = "idle"]
    /\ loc' = [loc EXCEPT ![p] = IdleLoc]
    /\ UNCHANGED <<raw, Dataset, hist, nops>>

---------------------------------------------------------------------------
(* The specifications *)

\* the watermarks of the runs: the earliest and the latest timestamp
Sinces == {0, LastTime}

\* get_dataset_for_repo(owner, name, since) and get_dataset_all(since)
Runs ==
    {Run("repo", key[1], key[2], since) :
         key \in RepoKeys, since \in Sinces}
    \cup {Run("all", GlobalKey[1], GlobalKey[2], since) :
              since \in {None, LastTime}}

\* the issues get_dataset is called with
GetDatasetArgs == Range(ResolvedIssue) \cup Range(OpenIssue)

InitRest ==
    /\ Dataset = <<>>
    /\ DatasetBuildLog = <<>>
    /\ pc = [p \in Procs |-> "idle"]
    /\ loc = [p \in Procs |-> IdleLoc]
    /\ hist = NoOp
    /\ nops = 0

\* the raw store holds some issues of the pool
Init ==
    /\ \E S \in SUBSET (1..Len(IssuePool)) :
          Cardinality(S) <= MaxIssues /\ InitStore(S)
    /\ InitRest

\* operations made one after another: update runs and direct get_dataset
\* calls, while issues are resolved in between
NextSeq ==
    \/ \E run \in Runs : SeqRun(run)
    \/ \E issue \in GetDatasetArgs, before \in Times :
           SeqGetDataset(issue, before)
    \/ \E k \in 1..MaxIssues : IssueResolved(k)

SpecSeq == Init /\ [][NextSeq]_vars

InitProcs ==
    /\ \E S \in SUBSET (1..Len(IssuePool)) :
          Cardinality(S) <= MaxProcIssues /\ InitStore(S)
    /\ InitRest

\* concurrent processes, each making update runs
Next ==
    \E p \in Procs :
        \/ \E run \in Runs : StartRun(p, run)
        \/ SaveLog(p)
        \/ GdDelete(p)
        \/ GdCheck(p)
        \/ GdSave(p)
        \/ OpenCheck(p)
        \/ CloseLog(p)

Spec == InitProcs /\ [][Next]_vars

\* the concurrent processes, each of which goes on with the run it started
Step(p) ==
    SaveLog(p) \/ GdDelete(p) \/ GdCheck(p) \/ GdSave(p) \/ OpenCheck(p)
        \/ CloseLog(p)

FairSpec == Spec /\ \A p \in Procs : WF_vars(Step(p))

---------------------------------------------------------------------------
(* _get_dynamics_data on its own: process 1 replays an event list, one     *)
(* iteration of the loop at a step                                         *)

\* the events an event list is made of: label events for two labels,
\* comments by a user, by the deleted account and without actor, and an
\* event of another type, before and after time 1
ReplayTimes == {1, 2}
ReplayEvents ==
    {Event(type, time, "alice", label, "") :
         type \in {"labeled", "unlabeled"}, time \in ReplayTimes,
         label \in {"x", "y"}}
    \cup {Event("commented", time, actor, "", "c") :
              time \in ReplayTimes, actor \in {"alice", Ghost, NoActor}}
    \cup {Event("closed", time, "bob", "", "") : time \in ReplayTimes}

\* event lists are in time order
TimeOrdered(events) ==
    \A j, k \in DOMAIN events : j < k => events[j].time <= events[k].time

\* the event lists of length n
EventLists(n) ==
    {events \in [1..n -> ReplayEvents] : TimeOrdered(events)}

\* process 1 is about to enter the loop of _get_dynamics_data(events, t)
InitReplay ==
    /\ InitStore({})
    /\ Dataset = <<>>
    /\ DatasetBuildLog = <<>>
    /\ hist = NoOp
    /\ nops = 0
    /\ pc = [p \in Procs |-> IF p = 1 THEN "replay" ELSE "idle"]
    /\ \E n \in 0..MaxEvents : \E events \in EventLists(n) :
       \E t \in ReplayTimes :
          loc = [p \in Procs |->
                    IF p = 1
                    THEN [events |-> events, t |-> t, idx |-> 1,
                          acc |-> DynamicsInit]
                    ELSE IdleLoc]

\* lines 231-245: one iteration of the loop
ReplayStep ==
    /\ pc[1] = "replay"
    /\ loc[1].idx <= Len(loc[1].events)
    /\ loc' = [loc EXCEPT ![1] =
                  [@ EXCEPT !.acc = DynamicsStep(@, loc[1].events[loc[1].idx],
                                                 loc[1].t),
                            !.idx = @ + 1]]
    /\ UNCHANGED <<raw, Dataset, DatasetBuildLog, pc, hist, nops>>

\* lines 246-248: the loop is over and the function returns
ReplayReturn ==
    /\ pc[1] = "replay"
    /\ loc[1].idx > Len(loc[1].events)
    /\ pc' = [pc EXCEPT ![1] = "replayed"]
    /\ UNCHANGED <<raw, Dataset, DatasetBuildLog, loc, hist, nops>>

NextReplay == ReplayStep \/ ReplayReturn

SpecReplay == InitReplay /\ [][NextReplay]_vars

---------------------------------------------------------------------------
(* _get_categorized_labels: the count of labels per category.  Labels and  *)
(* keywords are strings, read character by character.                      *)

\* the longest label list categorized by SpecLabels
MaxLabels == 2

UpperCase == "ABCDEFGHIJKLMNOPQRSTUVWXYZ"
LowerCase == "abcdefghijklmnopqrstuvwxyz"
Digits == "0123456789"

\* character i of string s
Char(s, i) == SubSeq(s, i, i)

\* c is a character of string s
CharIn(c, s) == \E i \in 1..Len(s) : Char(s, i) = c

\* str.lower() on one character
Lower(c) ==
    IF CharIn(c, UpperCase)
    THEN Char(LowerCase, CHOOSE i \in 1..Len(UpperCase) :
                             Char(UpperCase, i) = c)
    ELSE c

\* line 136: label.lower().replace("_", " "), one character
Normalized(c) == IF c = "_" THEN " " ELSE Lower(c)

\* \w of the regular expression, after the underscores are gone
IsWordChar(c) == CharIn(c, LowerCase) \/ CharIn(c, Digits)

\* line 136: re.compile(r"\w+").findall(...): the maximal runs of word
\* characters, in order; cur is the run being read
RECURSIVE FindWords(_, _, _, _)
FindWords(s, i, cur, out) ==
    IF i > Len(s)
    THEN IF cur = "" THEN out ELSE Append(out, cur)
    ELSE LET c == Normalized(Char(s, i))
         IN  IF IsWordChar(c)
             THEN FindWords(s, i + 1, cur \o c, out)
             ELSE FindWords(s, i + 1, "",
                            IF cur = "" THEN out ELSE Append(out, cur))

\* nltk's WordNetLemmatizer on the words of the labels below: a plural
\* noun becomes its singular, and "has" becomes "ha"; any other word is
\* left as it is
Lemmas ==
    {<<"tests", "test">>, <<"bugs", "bug">>, <<"docs", "doc">>,
     <<"timers", "timer">>, <<"has", "ha">>}

lemmatize(w) ==
    IF \E l \in Lemmas : l[1] = w
    THEN (CHOOSE l \in Lemmas : l[1] = w)[2]
    ELSE w

\* lines 136-137: the lemmatized words of a label
Words(label) == Map(FindWords(label, 1, "", <<>>), lemmatize)

\* rule in w, for strings: rule is a substring of w
Substring(rule, w) ==
    \E i \in 1..(Len(w) - Len(rule) + 1) :
        SubSeq(w, i, i + Len(rule) - 1) = rule

\* lines 78-130: the keyword rules of each category, in source order; a
\* rule is a keyword or a tuple of keywords
Keyword(word) == [tuple |-> FALSE, words |-> <<word>>]
Keywords(words) == [tuple |-> TRUE, words |-> words]

keyword_rules ==
    [bug |->
        <<Keyword("bug")>>,
     feature |->
        <<Keyword("feature")>>,
     test |->
        <<Keyword("test"), Keyword("testing")>>,
     build |->
        <<Keyword("ci"), Keyword("build")>>,
     doc |->
        <<Keyword("doc"), Keyword("document"), Keyword("documentation")>>,
     coding |->
        <<Keyword("code"), Keyword("coding"), Keyword("program"),
          Keyword("programming")>>,
     enhance |->
        <<Keyword("enhance"), Keyword("enhancement")>>,
     gfi |->
        <<Keyword("easy"), Keyword("starter"), Keyword("newbie"),
          Keyword("beginner"), Keyword("starter"), Keyword("minor"),
          Keyword("novice"), Keywords(<<"good", "first">>),
          Keywords(<<"low", "fruit">>), Keywords(<<"effort", "low">>),
          Keywords(<<"first", "time">>), Keywords(<<"first", "timer">>),
          Keywords(<<"first", "pr">>), Keywords(<<"up", "for", "grab">>)>>,
     medium |->
        <<Keyword("medium"), Keyword("intermediate")>>,
     major |->
        <<Keyword("important"), Keyword("major"), Keyword("breaking"),
          Keyword("difficult"), Keyword("hard"), Keyword("core"),
          Keyword("serious"), Keywords(<<"priority", "p1">>),
          Keywords(<<"priority", "high">>),
          Keywords(<<"priority", "critical">>)>>,
     triaged |->
        <<Keyword("triaged"), Keyword("triage"), Keyword("progress"),
          Keyword("haspr"), Keyword("fixed"), Keyword("wontfix"),
          Keywords(<<"ha", "pr">>), Keywords(<<"ha", "fix">>)>>,
     untriaged |->
        <<Keyword("untriaged"), Keywords(<<"need", "triage">>),
          Keywords(<<"needed", "triage">>), Keywords(<<"no", "triage">>)>>]

Categories == DOMAIN keyword_rules

\* lines 141-147: the condition under which a rule sets match to 1
RuleMatches(rule, words) ==
    IF rule.tuple
    THEN \A word \in Range(rule.words) : InList(word, words)
    ELSE \/ InList(rule.words[1], words)
         \/ \E w \in Range(words) : Substring(rule.words[1], w)

\* a loop over the rules that adds 1 to match for every rule that matches
RECURSIVE MatchLoopAdding(_, _, _)
MatchLoopAdding(rules, words, match) ==
    IF rules = <<>> THEN match
    ELSE MatchLoopAdding(Tail(rules), words,
                         IF RuleMatches(Head(rules), words)
                         THEN match + 1 ELSE match)

\* lines 139-147: match = 0, then the loop over the rules of a category
RECURSIVE MatchLoop(_, _, _)
MatchLoop(rules, words, match) ==
    IF rules = <<>> THEN match
    ELSE MatchLoop(Tail(rules), words,
                   IF RuleMatches(Head(rules), words) THEN 1 ELSE match)

\* lines 135-148: the iteration of the outer loop for one label
CategorizeLabel(label_cat, label) ==
    LET words == Words(label)
    IN  [cat \in Categories |->
            label_cat[cat] + MatchLoop(keyword_rules[cat], words, 0)]

\* the labels a label list is made of: "bug"; a label of two categories,
\* with an upper case letter and a plural; a word holding two keywords of
\* major; a tuple rule of gfi, with underscores; a word matching three
\* keywords of doc; a keyword that gfi lists twice; a label of no category
LabelPool ==
    {"bug", "Bug-in-tests", "hardcore", "good_first_issue",
     "documentation", "starter", "question"}

\* process 1 is about to enter the loop of _get_categorized_labels(labels)
InitLabels ==
    /\ InitStore({})
    /\ Dataset = <<>>
    /\ DatasetBuildLog = <<>>
    /\ hist = NoOp
    /\ nops = 0
    /\ pc = [p \in Procs |-> IF p = 1 THEN "categorize" ELSE "idle"]
    /\ \E n \in 0..MaxLabels : \E labels \in [1..n -> LabelPool] :
          loc = [p \in Procs |->
                    IF p = 1
                    THEN [labels |-> labels, idx |-> 1,
                          label_cat |-> [cat \in Categories |-> 0]]
                    ELSE IdleLoc]

\* lines 135-148: one iteration of the loop over the labels
CategorizeStep ==
    /\ pc[1] = "categorize"
    /\ loc[1].idx <= Len(loc[1].labels)
    /\ loc' = [loc EXCEPT ![1] =
                  [@ EXCEPT !.label_cat =
                                CategorizeLabel(@, loc[1].labels[loc[1].idx]),
                            !.idx = @ + 1]]
    /\ UNCHANGED <<raw, Dataset, DatasetBuildLog, pc, hist, nops>>

\* line 149: the loop is over and the counts are returned
CategorizeReturn ==
    /\ pc[1] = "categorize"
    /\ loc[1].idx > Len(loc[1].labels)
    /\ pc' = [pc EXCEPT ![1] = "categorized"]
    /\ UNCHANGED <<raw, Dataset, DatasetBuildLog, loc, hist, nops>>

NextLabels == CategorizeStep \/ CategorizeReturn

SpecLabels == InitLabels /\ [][NextLabels]_vars

---------------------------------------------------------------------------
(* The build log as a lock *)

\* build log k is active: its end time is unset
Active(k) == DatasetBuildLog[k].update_end = None

\* the key of build log k
LogKey(k) == <<DatasetBuildLog[k].owner, DatasetBuildLog[k].name>>

\* an active build log exists for the key
ActiveLogFor(key) ==
    \E k \in DOMAIN DatasetBuildLog : Active(k) /\ LogKey(k) = key

\* process p is between the opening and the closing of its build log
Running(p) ==
    pc[p] \in {"gd_delete", "gd_check", "gd_save", "open_check", "close_log"}

\* the run of process p has selected an issue of the repository
Selects(p, repo) ==
    \E k \in DOMAIN loc[p].work :
        <<loc[p].work[k].issue.owner, loc[p].work[k].issue.name>> = repo

\* C1: in every reachable state, each key (a repository, or the global
\* run's empty pair) has at most one active build log, whatever the
\* interleaving of the processes' lock checks and build log insertions.
C1_OneActiveLogPerKey ==
    \A j, k \in DOMAIN DatasetBuildLog :
        (Active(j) /\ Active(k) /\ LogKey(j) = LogKey(k)) => j = k

\* C2: no repository is processed by two runs at once: no two processes
\* are both between the opening and the closing of their build logs with
\* issues of the same repository in their selections.
C2_NoRepoProcessedTwice ==
    \A p, q \in Procs : \A repo \in RepoKeys :
        (p # q /\ Running(p) /\ Running(q))
            => ~(Selects(p, repo) /\ Selects(q, repo))

\* C8: an update run invoked while its key has an active build log returns
\* at once and leaves the store as it is: no build log is created or
\* modified, no Snapshot is created or deleted.
C8_ContentionLeavesStore ==
    [][\A p \in Procs : \A run \in Runs :
          (StartRun(p, run) /\ ActiveLogFor(<<run.owner, run.name>>))
              => /\ pc'[p] = "idle"
                 /\ Dataset' = Dataset
                 /\ DatasetBuildLog' = DatasetBuildLog]_vars

\* C8 witness: a second run was invoked while the first one held its build
\* log, and returned: its process is idle and no second log exists
C8_Witness ==
    /\ nops = 2
    /\ Len(DatasetBuildLog) = 1
    /\ Active(1)
    /\ \E p, q \in Procs : pc[p] = "idle" /\ Running(q)

\* the issues a run's watermark selects among the documents docs of a
\* collection, dated by at(_): those of the run's repository (of every
\* repository for the global run) dated at or after since (all of them
\* when since is unset)
Selected(run, docs, at(_)) ==
    {k \in DOMAIN docs :
        /\ run.kind = "repo"
               => (docs[k].owner = run.owner /\ docs[k].name = run.name)
        /\ run.since # None => at(docs[k]) >= run.since}

ResolvedAt(i) == i.resolved_at
UpdatedAt(i) == i.updated_at

\* process p closes its build log in this step
Closes(p) == pc[p] = "close_log" /\ pc'[p] = "idle"

\* C9: every run that opens a build log goes on to close that same log:
\* it sets the end time and sets the two counters to the numbers of
\* resolved and of open issues its watermark selects, however many
\* Snapshot builds were skipped.
C9_LogEventuallyClosed ==
    /\ \A k \in 1..MaxRuns :
           (k \in DOMAIN DatasetBuildLog)
               ~> (k \in DOMAIN DatasetBuildLog /\ ~Active(k))
    /\ [][\A p \in Procs :
             Closes(p) =>
                 LET k == loc[p].log
                     run == loc[p].run
                 IN  /\ Active(k)
                     /\ DatasetBuildLog[k].pid = p
                     /\ DatasetBuildLog' =
                            [DatasetBuildLog EXCEPT ![k] =
                                [@ EXCEPT
                                   !.update_end = UtcNow,
                                   !.updated_resolved_issues =
                                       Cardinality(Selected(run,
                                           ResolvedIssue, ResolvedAt)),
                                   !.updated_open_issues =
                                       Cardinality(Selected(run,
                                           OpenIssue, UpdatedAt))]]]_vars

\* C9 witness: a run has closed its build log with a selected issue
\* counted, though no Snapshot was built
C9_Witness ==
    \E k \in DOMAIN DatasetBuildLog :
        /\ ~Active(k)
        /\ DatasetBuildLog[k].updated_resolved_issues
               + DatasetBuildLog[k].updated_open_issues > 0
        /\ Dataset = <<>>

---------------------------------------------------------------------------
(* The Dataset collection *)

\* the key of a Snapshot
SnapshotKey(d) == <<d.owner, d.name, d.number, d.before>>

\* the get_dataset calls the last operation made
LastCalls == Range(hist.calls)

\* C3: after any sequence of get_dataset calls and update runs made one
\* after another from an empty Dataset collection, the collection holds
\* at most one Snapshot for each (owner, name, number, before).
C3_OneSnapshotPerKey ==
    \A j, k \in DOMAIN Dataset :
        SnapshotKey(Dataset[j]) = SnapshotKey(Dataset[k]) => j = k

\* C3 witness: a call has found the Snapshot of its key in the collection
\* and returned it, where several Snapshots of the issue are kept
C3_Witness ==
    \E c \in LastCalls :
        /\ c.ret.valid /\ ~c.saved
        /\ Len(IssueSnapshots(Dataset, c.issue)) >= 2

\* C4: get_dataset called twice in a row with the same (issue, cutoff)
\* returns the same value both times, and the second call writes nothing:
\* it deletes no Snapshot, saves none and leaves the Dataset collection as
\* it was.
C4_SecondCallIdempotent ==
    [][\A issue \in GetDatasetArgs : \A before \in Times :
          (/\ hist.kind = "call"
           /\ hist.calls[1].issue = issue
           /\ hist.calls[1].before = before
           /\ SeqGetDataset(issue, before))
              => /\ hist'.calls[1].ret = hist.calls[1].ret
                 /\ ~hist'.calls[1].saved
                 /\ ~hist'.calls[1].deleted
                 /\ Dataset' = Dataset]_vars

\* C4 witness: two direct calls were made and nothing else; the first one
\* built the only Snapshot and the second one returned it without a write
C4_Witness ==
    /\ nops = 2
    /\ hist.kind = "call"
    /\ DatasetBuildLog = <<>>
    /\ Len(Dataset) = 1
    /\ hist.calls[1].ret = Returned(Dataset[1])
    /\ ~hist.calls[1].saved

---------------------------------------------------------------------------
(* The end-to-end scenario: repository o/r holds one resolved issue #1,    *)
(* not a pull request, created at T0, labeled "bug" at T1 and resolved at  *)
(* T2 with resolver_commit_num = 2, and no open issue                      *)

T0 == IssuePool[1].doc.created_at
T1 == IssuePool[1].doc.events[1].time
T2 == IssuePool[1].doc.resolved_at

Scenario ==
    /\ T0 < T1 /\ T1 < T2
    /\ RepoResolvedIssues("o", "r", T0) = <<IssuePool[1].doc>>
    /\ RepoOpenIssues("o", "r", T0) = <<>>
    /\ IssuePool[1].doc.number = 1
    /\ IssuePool[1].doc.resolver_commit_num = 2
    /\ IssuePool[1].doc.events = <<Event("labeled", T1, "bob", "bug", "")>>
    /\ ~IsPull(DB, IssuePool[1].doc)

\* the first operation of the behaviour was get_dataset_for_repo on o/r
\* with since = T0, on the scenario's store
ScenarioRun ==
    /\ Scenario
    /\ nops = 1
    /\ hist.kind = "run"
    /\ hist.run = Run("repo", "o", "r", T0)

\* the collection holds exactly two Snapshots, with the given cutoffs,
\* labels and resolver_commit_num
TwoSnapshots(before1, labels1, rcn1, before2, labels2, rcn2) ==
    /\ Len(Dataset) = 2
    /\ \E j, k \in DOMAIN Dataset :
          /\ j # k
          /\ Dataset[j].before = before1
          /\ Dataset[j].labels = labels1
          /\ Dataset[j].resolver_commit_num = rcn1
          /\ Dataset[k].before = before2
          /\ Dataset[k].labels = labels2
          /\ Dataset[k].resolver_commit_num = rcn2

\* C5, as stated: the scenario's run leaves two Snapshots, one with
\* before = T0, no label and resolver_commit_num = -1, one with
\* before = T2, labels = ["bug"] and resolver_commit_num = 2.
C5_ScenarioAsStated ==
    ScenarioRun => TwoSnapshots(T0, <<>>, -1, T2, <<"bug">>, 2)

\* C5, amended: the scenario's run leaves two Snapshots, one with
\* before = T0 and no label, one with before = T2 and labels = ["bug"],
\* both with resolver_commit_num = 2.
C5_ScenarioBothResolved ==
    ScenarioRun => TwoSnapshots(T0, <<>>, 2, T2, <<"bug">>, 2)

\* C5 witness: the scenario's run was made and has built its Snapshots
C5_Witness == ScenarioRun /\ Len(Dataset) = 2 /\ Len(hist.calls) = 2

---------------------------------------------------------------------------
(* Stale Snapshots *)

\* a Snapshot built while its issue was open
Stale(d) == d.resolver_commit_num = OPEN_RESOLVER_COMMIT_NUM

\* C6: a get_dataset call with a ResolvedIssue (whose own
\* resolver_commit_num is not -1) deletes every stale Snapshot of the
\* issue, at any cutoff, before it looks for the Snapshot of its key and
\* before it builds one: when the call returns the collection holds no
\* stale Snapshot of the issue, and the Snapshot returned is not stale.
C6_StaleSuperseded ==
    \A c \in LastCalls :
        (IsResolvedIssue(c.issue) /\ c.issue.resolver_commit_num # -1)
            => /\ \A k \in DOMAIN c.Dataset :
                      ~(SameIssue(c.Dataset[k], c.issue)
                        /\ Stale(c.Dataset[k]))
               /\ c.ret.valid => ~Stale(c.ret.data)

\* C6 witness: a call with a ResolvedIssue has deleted a stale Snapshot
C6_Witness ==
    \E c \in LastCalls : IsResolvedIssue(c.issue) /\ c.deleted

---------------------------------------------------------------------------
(* Causal consistency *)

\* the raw store as it was at time t, for a Snapshot of the issue: the
\* commits authored or committed after t, the issues created after t
\* (other than the issue itself), the resolved issues resolved after t
\* and the monthly counts of later months are not there yet, and an issue
\* closed after t is still open
StoreAt(db, t, issue) ==
    [RepoIssue |->
         Map(SelectSeq(db.RepoIssue, LAMBDA i :
                 i.created_at <= t \/ SameIssue(i, issue)),
             LAMBDA i : IF i.closed_at # None /\ i.closed_at > t
                        THEN [i EXCEPT !.closed_at = None, !.state = "open"]
                        ELSE i),
     RepoCommit |->
         SelectSeq(db.RepoCommit, LAMBDA c :
             c.authored_at <= t /\ c.committed_at <= t),
     ResolvedIssue |->
         SelectSeq(db.ResolvedIssue, LAMBDA r : r.resolved_at <= t),
     OpenIssue |-> db.OpenIssue,
     Repo |->
         Map(db.Repo, LAMBDA r :
             [r EXCEPT
                !.monthly_stars = SelectSeq(@, LAMBDA x : x.month <= t),
                !.monthly_pulls = SelectSeq(@, LAMBDA x : x.month <= t),
                !.monthly_commits = SelectSeq(@, LAMBDA x : x.month <= t)])]

\* the issue passed to get_dataset as it was at time t: its later events
\* are not there yet, and an issue resolved after t is not resolved yet
IssueAt(issue, t) ==
    LET events == SelectSeq(issue.events, LAMBDA e : e.time <= t)
    IN  IF IsResolvedIssue(issue) /\ issue.resolved_at > t
        THEN [issue EXCEPT !.cls = "OpenIssue", !.events = events]
        ELSE [issue EXCEPT !.events = events]

\* the Snapshot that get_dataset builds from the store as it was at the
\* cutoff
SnapshotAtCutoff(c) ==
    BuildSnapshot(StoreAt(DB, c.before, c.issue),
                  IssueAt(c.issue, c.before), c.before)

\* a Snapshot without its closed_at and its resolver_commit_num
WithoutOutcome(d) ==
    [d EXCEPT !.closed_at = None, !.resolver_commit_num = None]

\* C7, as stated: no raw record dated after the cutoff contributes to any
\* field of a Snapshot: the Snapshot built is the one built from the store
\* as it was at the cutoff.  (Two stores that differ only in what is dated
\* after the cutoff are the same store at the cutoff.)
C7_CausalAsStated ==
    \A c \in LastCalls : c.saved => c.ret.data = SnapshotAtCutoff(c)

\* C7, amended: no raw record dated after the cutoff contributes to any
\* field of a Snapshot other than closed_at, which is the closing time of
\* the canonical RepoIssue record whatever the cutoff, and
\* resolver_commit_num, which is the one of the ResolvedIssue passed
\* whatever its resolution time.
C7_CausalButOutcome ==
    \A c \in LastCalls :
        c.saved => WithoutOutcome(c.ret.data)
                       = WithoutOutcome(SnapshotAtCutoff(c))

\* C7 witness: a Snapshot was built at a cutoff earlier than an event of
\* its issue, than a commit and than the resolution of an issue
C7_Witness ==
    \E c \in LastCalls :
        /\ c.saved
        /\ \E e \in Range(c.issue.events) : e.time > c.before
        /\ \E x \in Range(RepoCommit) :
              x.owner = c.issue.owner /\ x.committed_at > c.before
        /\ \E r \in Range(ResolvedIssue) :
              r.owner = c.issue.owner /\ r.resolved_at > c.before

---------------------------------------------------------------------------
(* Pull requests *)

\* the index in hist.calls of the call made for work item w, or 0
CallOf(w) ==
    IF \E j \in DOMAIN hist.calls :
           hist.calls[j].issue = w.issue /\ hist.calls[j].before = w.before
    THEN CHOOSE j \in DOMAIN hist.calls :
           hist.calls[j].issue = w.issue /\ hist.calls[j].before = w.before
    ELSE 0

\* C10: a get_dataset call for an issue whose canonical record is a pull
\* request, with no Snapshot of its key in the collection, saves no
\* Snapshot and returns none; and the update run that made the call goes
\* on with its other issues: it makes both calls for every selected
\* resolved issue and does not leave out an open issue that is not up to
\* date.
C10_PullRequestSkipped ==
    /\ \A c \in LastCalls :
           (IsPull(DB, c.issue)
            /\ Len(Existing(Dataset, c.issue, c.before)) = 0)
               => ~c.ret.valid /\ ~c.saved
    /\ hist.kind = "run" =>
           /\ \A i \in Range(RunResolved(hist.run)) :
                  /\ CallOf([issue |-> i, before |-> i.created_at]) # 0
                  /\ CallOf([issue |-> i, before |-> i.resolved_at]) # 0
           /\ \A i \in Range(RunOpen(hist.run)) :
                  \/ CallOf([issue |-> i, before |-> i.updated_at]) # 0
                  \/ Len(IssueSnapshots(Dataset, i)) > 0

\* C10 witness: in an update run, a call for a pull request has returned
\* nothing and a later call of the run has built a Snapshot
C10_Witness ==
    /\ hist.kind = "run"
    /\ \E j, k \in DOMAIN hist.calls :
          /\ j < k
          /\ IsPull(DB, hist.calls[j].issue)
          /\ ~hist.calls[j].ret.valid
          /\ hist.calls[k].saved

---------------------------------------------------------------------------
(* What a completed update run leaves in the Dataset collection *)

\* the collection holds a Snapshot of the issue with the cutoff
HasSnapshot(issue, before) ==
    \E k \in DOMAIN Dataset :
        SameIssue(Dataset[k], issue) /\ Dataset[k].before = before

\* C11: after an update run has completed, the Dataset collection holds,
\* for every resolved issue the run selected (resolved_at >= since) whose
\* canonical record is not a pull request, a Snapshot with before = the
\* issue's created_at and a Snapshot with before = its resolved_at.
C11_ResolvedHasBothSnapshots ==
    hist.kind = "run" =>
        \A i \in Range(RunResolved(hist.run)) :
            ~IsPull(DB, i) =>
                /\ HasSnapshot(i, i.created_at)
                /\ HasSnapshot(i, i.resolved_at)

\* C11 witness: a completed run has selected a resolved issue that is not
\* a pull request and was created before it was resolved, and has left out
\* another resolved issue by its watermark
C11_Witness ==
    /\ hist.kind = "run"
    /\ \E i \in Range(RunResolved(hist.run)) :
          ~IsPull(DB, i) /\ i.created_at < i.resolved_at
    /\ \E r \in Range(ResolvedIssue) :
          r \notin Range(RunResolved(hist.run))

\* C12: running the same update again (same entry point, same since)
\* right after a completed run, on unchanged raw data, leaves the Dataset
\* collection as it is: no Snapshot is added, deleted or modified, for
\* resolved and for open issues.
C12_RerunIsFixpoint ==
    [][\A run \in Runs :
          (/\ hist.kind = "run"
           /\ hist.run = run
           /\ SeqRun(run))
              => /\ Dataset' = Dataset
                 /\ \A k \in DOMAIN hist'.calls :
                       ~hist'.calls[k].saved /\ ~hist'.calls[k].deleted]_vars

\* C12 witness: two runs of the same key were made one after the other,
\* the second one on a collection holding Snapshots of a resolved and of
\* an open issue, and its calls saved nothing
C12_Witness ==
    /\ nops = 2 /\ hist.kind = "run"
    /\ Len(DatasetBuildLog) = 2
    /\ LogKey(1) = LogKey(2)
    /\ Len(hist.calls) >= 2
    /\ \A k \in DOMAIN hist.calls : ~hist.calls[k].saved
    /\ \E d \in Range(Dataset) : ~Stale(d)
    /\ \E d \in Range(Dataset) : Stale(d)

---------------------------------------------------------------------------
(* Open issues *)

\* a Snapshot of the open issue, whichever, is at or after its last
\* activity
SomeSnapshotUpToDate(ds, i) ==
    \E k \in DOMAIN ds :
        SameIssue(ds[k], i) /\ ds[k].before >= LastUpdated(i)

\* C13: in an update run, a selected open issue that has some Snapshot
\* with before >= its most recent activity time (the latest event time,
\* or created_at without events) gets no new Snapshot; any other selected
\* open issue is passed to get_dataset with cutoff = its updated_at.
C13_OpenIssueSkipRule ==
    [][\A run \in Runs :
          (SeqRun(run) /\ hist'.kind = "run")
              => \A i \in Range(RunOpen(run)) :
                     IF SomeSnapshotUpToDate(Dataset, i)
                     THEN \A k \in DOMAIN hist'.calls :
                              hist'.calls[k].issue = i
                                  => ~hist'.calls[k].saved
                     ELSE \E k \in DOMAIN hist'.calls :
                              /\ hist'.calls[k].issue = i
                              /\ hist'.calls[k].before = i.updated_at]_vars

---------------------------------------------------------------------------
(* The replay of the events *)

\* the events of the list that the loop has gone through
Consumed == SubSeq(loc[1].events, 1, loc[1].idx - 1)

\* the accumulator of the loop
Acc == loc[1].acc

\* the event of the iteration just made, and the accumulator before it
LastEvent == loc[1].events[loc[1].idx - 1]
AccBefore ==
    DynamicsFold(DynamicsInit, SubSeq(loc[1].events, 1, loc[1].idx - 2),
                 loc[1].t)

\* a fold of the events with time <= t over a set of labels
RECURSIVE LabelSetFold(_, _, _)
LabelSetFold(set, events, t) ==
    IF events = <<>> THEN set
    ELSE LET e == Head(events)
             next == IF ~(e.time <= t) THEN set
                     ELSE IF e.type = "labeled" THEN set \cup {e.label}
                     ELSE IF e.type = "unlabeled" THEN set \ {e.label}
                     ELSE set
         IN  LabelSetFold(next, Tail(events), t)

\* C14: the labels of the replay are the result of a fold over a set of
\* labels of the events with time <= cutoff in list order (labeled adds
\* the label, unlabeled removes it if present): the collection never
\* holds a label twice, and labeled(x), labeled(x), unlabeled(x) leaves no
\* label.
C14_LabelsAreSetFold ==
    pc[1] \in {"replay", "replayed"} =>
        /\ Range(Acc.labels) = LabelSetFold({}, Consumed, loc[1].t)
        /\ Len(Acc.labels) = Cardinality(Range(Acc.labels))

\* C15: an iteration for an unlabeled event whose label is not in the
\* label collection leaves the labels and the comments as they are (and
\* the loop goes on); the list [unlabeled(x)] alone leaves no label.
C15_UnlabelAbsentIgnored ==
    /\ [][(/\ ReplayStep
           /\ loc[1].events[loc[1].idx].type = "unlabeled"
           /\ ~InList(loc[1].events[loc[1].idx].label, Acc.labels))
              => /\ loc'[1].acc.labels = Acc.labels
                 /\ loc'[1].acc.comments = Acc.comments
                 /\ loc'[1].idx = loc[1].idx + 1]_vars
    /\ [](pc[1] = "replayed"
          /\ Len(loc[1].events) = 1
          /\ loc[1].events[1].type = "unlabeled"
              => Acc.labels = <<>>)

\* C15 witness: the iteration just made was for an unlabeled event at or
\* before the cutoff whose label was not in the collection, which held
\* another label
C15_Witness ==
    /\ pc[1] = "replay" /\ loc[1].idx > 1
    /\ LastEvent.type = "unlabeled"
    /\ LastEvent.time <= loc[1].t
    /\ AccBefore.labels # <<>>
    /\ ~InList(LastEvent.label, AccBefore.labels)
    /\ Acc.labels = AccBefore.labels

---------------------------------------------------------------------------
(* Snapshots are not mutated *)

\* C16: no operation modifies a persisted Snapshot, and none deletes one
\* whose resolver_commit_num is not -1; a Snapshot with
\* resolver_commit_num = -1 is deleted only by a get_dataset call made
\* with a ResolvedIssue of the same (owner, name, number).
C16_SnapshotsImmutable ==
    [][\A k \in DOMAIN Dataset :
          \/ \E j \in DOMAIN Dataset' : Dataset'[j] = Dataset[k]
          \/ /\ Stale(Dataset[k])
             /\ \E j \in DOMAIN hist'.calls :
                   /\ IsResolvedIssue(hist'.calls[j].issue)
                   /\ SameIssue(Dataset[k], hist'.calls[j].issue)
                   /\ hist'.calls[j].deleted]_vars

\* C16 witness: an operation has deleted a Snapshot with
\* resolver_commit_num = -1 and the collection holds a Snapshot with
\* another resolver_commit_num that was there before the operation
C16_Witness ==
    /\ \E c \in LastCalls : c.deleted
    /\ \E d \in Range(Dataset) :
          /\ ~Stale(d)
          /\ \A c \in LastCalls : ~(c.saved /\ c.ret.data = d)

---------------------------------------------------------------------------
(* Update runs that may abort: a process dies, or a storage or query       *)
(* failure propagates out of the run, after its build log was inserted.    *)
(* Nothing in lines 371-388 and 402-419 catches the failure, so the        *)
(* process ends where it is.                                               *)

\* an abort that closes the build log on its way out
CrashClosingLog(p) ==
    /\ Running(p)
    /\ DatasetBuildLog' =
           [DatasetBuildLog EXCEPT ![loc[p].log] = ClosedLog(@, loc[p].run)]
    /\ pc' = [pc EXCEPT ![p] = "crashed"]
    /\ hist' = [kind |-> "crashed", calls |-> <<>>, nops |-> nops]
    /\ UNCHANGED <<raw, Dataset, loc, nops>>

\* the run of process p aborts between the insertion of its build log and
\* its closing; hist records how many runs had been started by then
Crash(p) ==
    /\ Running(p)
    /\ pc' = [pc EXCEPT ![p] = "crashed"]
    /\ hist' = [kind |-> "crashed", calls |-> <<>>, nops |-> nops]
    /\ UNCHANGED <<raw, Dataset, DatasetBuildLog, loc, nops>>

NextCrash ==
    \E p \in Procs :
        \/ \E run \in Runs : StartRun(p, run)
        \/ SaveLog(p)
        \/ GdDelete(p)
        \/ GdCheck(p)
        \/ GdSave(p)
        \/ OpenCheck(p)
        \/ CloseLog(p)
        \/ Crash(p)

SpecCrash == InitProcs /\ [][NextCrash]_vars

---------------------------------------------------------------------------
(* Aborted runs *)

\* the run of process p has aborted
Crashed(p) == pc[p] = "crashed"

\* C17: the build log of a run that aborted after opening it is active in
\* every later state (no operation sets its end time), and every run
\* started later for the same key returns at once: it inserts no build log
\* and processes no issue.
C17_AbortedRunKeepsLock ==
    /\ [](\A p \in Procs : Crashed(p) => Active(loc[p].log))
    /\ [][\A q \in Procs : \A run \in Runs :
             (/\ StartRun(q, run)
              /\ \E p \in Procs :
                    /\ Crashed(p)
                    /\ LogKey(loc[p].log) = <<run.owner, run.name>>)
                 => /\ pc'[q] = "idle"
                    /\ DatasetBuildLog' = DatasetBuildLog
                    /\ Dataset' = Dataset]_vars

\* C17 witness: after the run of process 1 aborted, process 2 started a
\* run and returned without inserting a build log
C17_Witness ==
    /\ Crashed(1) /\ pc[2] = "idle"
    /\ hist.kind = "crashed" /\ hist.nops < nops
    /\ Len(DatasetBuildLog) = 1
    /\ Active(1)

---------------------------------------------------------------------------
(* Label categories *)

\* the label matches at least one rule of the category
MatchesCategory(label, cat) ==
    \E k \in DOMAIN keyword_rules[cat] :
        RuleMatches(keyword_rules[cat][k], Words(label))

\* the positions of the label list that the loop has gone through
Categorized == 1..(loc[1].idx - 1)

\* C18: the count of a category is the number of labels of the list that
\* match at least one rule of the category: a label adds at most 1 to a
\* category, however many of its rules match, so no count exceeds the
\* number of labels; and a label adds 1 to each category it matches.
C18_CountIsMatchingLabels ==
    pc[1] \in {"categorize", "categorized"} =>
        \A cat \in Categories :
            /\ loc[1].label_cat[cat] =
                   Cardinality({k \in Categorized :
                                   MatchesCategory(loc[1].labels[k], cat)})
            /\ loc[1].label_cat[cat] <= Len(loc[1].labels)

\* C18 witness: the counts were returned for a list with a label that
\* matches several rules of one category and a label of two categories
C18_Witness ==
    /\ pc[1] = "categorized"
    /\ \E k \in DOMAIN loc[1].labels :
          MatchLoopAdding(keyword_rules["doc"], Words(loc[1].labels[k]), 0)
              > 1
    /\ \E k \in DOMAIN loc[1].labels :
          /\ MatchesCategory(loc[1].labels[k], "bug")
          /\ MatchesCategory(loc[1].labels[k], "test")
    /\ loc[1].label_cat["doc"] = 1
    /\ loc[1].label_cat["bug"] = 1
    /\ loc[1].label_cat["test"] = 1

---------------------------------------------------------------------------
(* The events of a Snapshot *)

\* line 232: the events that the replay of _get_dynamics_data(events, t)
\* goes through
ReplayedEvents(issue, t) == SelectSeq(issue.events, LAMBDA e : e.time <= t)

\* the types of the events
Types(events) == Map(events, LAMBDA e : e.type)

\* C19, as stated: the events list of a Snapshot holds the types of
\* exactly the events that the replay went through for its labels,
\* comments and actor sets, those at the cutoff included.
C19_EventsAreReplayed ==
    \A c \in LastCalls :
        c.saved => c.ret.data.events
                       = Types(ReplayedEvents(c.issue, c.before))

\* C19, amended: the events list of a Snapshot holds the types of exactly
\* the replayed events dated strictly before the cutoff: an event at the
\* cutoff is replayed into labels, comments and actor sets but is not in
\* the events list.
C19_EventsAreReplayedBeforeCutoff ==
    \A c \in LastCalls :
        c.saved =>
            c.ret.data.events
                = Types(SelectSeq(ReplayedEvents(c.issue, c.before),
                                  LAMBDA e : e.time # c.before))

\* C19 witness: a Snapshot was built at a cutoff at which its issue was
\* labeled, and has the label
C19_Witness ==
    \E c \in LastCalls :
        /\ c.saved
        /\ \E e \in Range(c.issue.events) :
              /\ e.type = "labeled" /\ e.time = c.before
              /\ InList(e.label, c.ret.data.labels)
        /\ Len(c.ret.data.events) < Len(ReplayedEvents(c.issue, c.before))

=============================================================================
